---- MODULE Spec2Model ----
(***************************************************************************)
(* Model of the wrfhours streaming pipeline (src/wrfhours.go lines 1-316   *)
(* and src/fileinfochan.go lines 1-42): the Parse task reads the log line  *)
(* by line and hands FileInfo items off on the unbuffered channel          *)
(* parser.files; the watchdog goroutine of NewFileInfoChan relays them to  *)
(* the unbuffered channel parser.Files, racing every wait against          *)
(* time.After(timeout); the caller registers the hook with SetOnClose and  *)
(* drains parser.Files with Collect.                                       *)
(*                                                                         *)
(* Text is modelled as a sequence of tokens.  The fixed markers of the     *)
(* grammar ("Timing for Writing ", " for domain", "SUCCESS COMPLETE WRF")  *)
(* and the separators the code splits on (" ", "_", "d") are tokens of     *)
(* their own, so strings.Split / TrimPrefix / HasSuffix are computed on    *)
(* the token sequence the way the code computes them on bytes.             *)
(*                                                                         *)
(* Time is discrete.  Tick is one unit of wall-clock time.  A handoff on   *)
(* an unbuffered channel whose two sides are both ready takes no time, so  *)
(* Tick is disabled while the parser is blocked in a send and the watchdog *)
(* is parked in its select with an unexpired timer.                        *)
(***************************************************************************)
EXTENDS Integers, Sequences, FiniteSets, TLC

\* ------------------------------------------------------------------------
\* Bounds of the model
\* ------------------------------------------------------------------------
\* number of lines the source may deliver before it ends
MaxLines == 3
MaxHandlers == 2
\* the configured watchdog duration, in ticks
Timeout == 2

\* ------------------------------------------------------------------------
\* Text: tokens and the string functions the parser uses
\* ------------------------------------------------------------------------
filesPrefix == "Timing for Writing "
forDomain == " for domain"
successMarker == "SUCCESS COMPLETE WRF"
restartToken == "restart"

IsPrefix(p, s) == Len(p) <= Len(s) /\ SubSeq(s, 1, Len(p)) = p

HasPrefix(s, p) == IsPrefix(p, s)

HasSuffix(s, tok) == Len(s) >= 1 /\ s[Len(s)] = tok

TrimPrefix(s, p) == IF IsPrefix(p, s) THEN SubSeq(s, Len(p) + 1, Len(s)) ELSE s

\* index of the first occurrence of the separator token, 0 when absent
IndexOf(s, sep) ==
    IF \E i \in 1..Len(s) : s[i] = sep
    THEN CHOOSE i \in 1..Len(s) : s[i] = sep /\ \A j \in 1..(i - 1) : s[j] # sep
    ELSE 0

RECURSIVE Split(_, _)
Split(s, sep) ==
    LET i == IndexOf(s, sep)
    IN IF i = 0 THEN <<s>>
       ELSE <<SubSeq(s, 1, i - 1)>> \o Split(SubSeq(s, i + 1, Len(s)), sep)

RECURSIVE SplitN(_, _, _)
SplitN(s, sep, n) ==
    LET i == IndexOf(s, sep)
    IN IF n <= 1 \/ i = 0 THEN <<s>>
       ELSE <<SubSeq(s, 1, i - 1)>> \o SplitN(SubSeq(s, i + 1, Len(s)), sep, n - 1)

RECURSIVE TrimLeft(_)
TrimLeft(s) == IF Len(s) >= 1 /\ s[1] = " " THEN TrimLeft(Tail(s)) ELSE s

RECURSIVE TrimRight(_)
TrimRight(s) ==
    IF Len(s) >= 1 /\ s[Len(s)] = " " THEN TrimRight(SubSeq(s, 1, Len(s) - 1)) ELSE s

TrimSpace(s) == TrimRight(TrimLeft(s))

\* strconv.ParseInt(s, 10, 32): the decimal literals the model uses
IntLiterals ==
    ("01" :> 1) @@ ("1" :> 1) @@ ("03" :> 3) @@ ("3" :> 3) @@ ("0" :> 0) @@ ("-1" :> -1)

ParseInt(s) ==
    IF Len(s) = 1 /\ s[1] \in DOMAIN IntLiterals
    THEN [ok |-> TRUE, val |-> IntLiterals[s[1]]]
    ELSE [ok |-> FALSE, val |-> 0]

\* time.Parse: instants are minutes counted from 2021-08-03 00:00:00
DateLiterals == ("2021-08-04" :> 1440) @@ ("2021-08-06" :> 4320)

TimeLiterals ==
    ("00:00:00" :> 0) @@ ("00:59:00" :> 59) @@ ("01:00:00" :> 60) @@ ("01:29:00" :> 89)

\* layout "2006-01-0215:04:05": a date immediately followed by a time
ParseInstantJoined(s) ==
    IF Len(s) = 2 /\ s[1] \in DOMAIN DateLiterals /\ s[2] \in DOMAIN TimeLiterals
    THEN [ok |-> TRUE, val |-> DateLiterals[s[1]] + TimeLiterals[s[2]]]
    ELSE [ok |-> FALSE, val |-> 0]

\* layout "2006-01-02_15:04:05": a date, an underscore, a time
ParseInstantUnderscore(s) ==
    IF Len(s) = 3 /\ s[1] \in DOMAIN DateLiterals /\ s[2] = "_"
       /\ s[3] \in DOMAIN TimeLiterals
    THEN [ok |-> TRUE, val |-> DateLiterals[s[1]] + TimeLiterals[s[3]]]
    ELSE [ok |-> FALSE, val |-> 0]

\* variant: the hours are rounded down
HoursOfFloor(m) == m \div 60

\* int(d.Hours()) for a duration of m whole minutes: conversion to int
\* truncates toward zero
HoursOf(m) == IF m >= 0 THEN m \div 60 ELSE -((-m) \div 60)

\* ------------------------------------------------------------------------
\* FileInfo and errors
\* ------------------------------------------------------------------------
NoErr == [msg |-> "", wrap |-> "", line |-> <<>>]

Errorf(m) == [msg |-> m, wrap |-> "", line |-> <<>>]

\* fmt.Errorf("<w> `%s`: %w", line, e) and fmt.Errorf("<w>: %w", e)
Wrap(w, l, e) == [msg |-> e.msg, wrap |-> w, line |-> l]

StartNil == -1
ZeroInstant == 0

ZeroFileInfo ==
    [Type |-> <<>>, Domain |-> 0, Instant |-> ZeroInstant, HourProgr |-> 0,
     Filename |-> <<>>, Err |-> NoErr]

ErrFileInfo(e) == [ZeroFileInfo EXCEPT !.Err = e]

IsEmpty(f) == f.Type = <<>> /\ f.Err = NoErr

IsError(f) == f.Type = <<>> /\ f.Err # NoErr

ErrIncomplete == Errorf("input stream completed without success log line")
ErrHook == Errorf("TEST")
ErrHookWrapped == Wrap("OnClose hook failed", <<>>, ErrHook)
ErrTimeout == Errorf("Timeout expired: no new files created for more than")

\* ------------------------------------------------------------------------
\* Line classification and decoding
\* ------------------------------------------------------------------------
\* variant: the marker is looked for at the start of the line
isSuccessLineAtStart(l) == HasPrefix(l, <<successMarker>>)

isSuccessLine(l) == HasSuffix(l, successMarker)

\* variant: every line beginning with the marker is a start-instant line
isStartInstantLineAlways(l, start) == HasPrefix(l, <<"d01", " ">>)

isStartInstantLine(l, start) == HasPrefix(l, <<"d01", " ">>) /\ start = StartNil

isFileInfoLine(l) == HasPrefix(l, <<filesPrefix>>)

\* result: [err, instant]; instant is the new parser.Start when err = NoErr
parseStartInstant(l) ==
    LET lineParts == SplitN(l, " ", 3)
    IN IF Len(lineParts) # 3
       THEN [err |-> Wrap("Wrong format for start instant line", l,
                          Errorf("line must contains at leas 3 space separated parts")),
             instant |-> StartNil]
       ELSE LET t == ParseInstantUnderscore(lineParts[2])
            IN IF t.ok
               THEN [err |-> NoErr, instant |-> t.val]
               ELSE [err |-> Wrap("Wrong format for start instant line", l,
                                  Errorf("parsing time")),
                     instant |-> StartNil]

\* the deferred function of parseFileInfo: wrap a failure with the raw line
WrapTiming(l, e) == ErrFileInfo(Wrap("Wrong format for timing line", l, e))

\* variant: the instant is checked before the domain
decodeTimingLineInstantFirst(l, start) ==
    LET fname == TrimPrefix(l, <<filesPrefix>>)
        fnameParts == Split(fname, forDomain)
    IN IF Len(fnameParts) # 2
       THEN WrapTiming(l, Errorf("for domain expected to appears in line"))
       ELSE
       LET filename == TrimSpace(fnameParts[1])
       IN IF filename = <<restartToken>>
          THEN [ZeroFileInfo EXCEPT !.Type = <<restartToken>>]
          ELSE
          LET filenameParts == Split(filename, "_")
          IN IF Len(filenameParts) # 4
             THEN WrapTiming(l, Errorf("filename expected to be formed by 4 parts separated by underscores"))
             ELSE
             LET trimmedDomain == TrimPrefix(filenameParts[2], <<"d">>)
                 domain == ParseInt(trimmedDomain)
                 instant == ParseInstantJoined(filenameParts[3] \o filenameParts[4])
             IN IF ~instant.ok
                THEN WrapTiming(l, Errorf("invalid time instant"))
                ELSE IF ~domain.ok
                THEN WrapTiming(l, Errorf("invalid domain"))
                ELSE [Type |-> filenameParts[1],
                      Domain |-> domain.val,
                      Instant |-> instant.val,
                      HourProgr |-> HoursOf(instant.val - start),
                      Filename |-> filename,
                      Err |-> NoErr]

\* parseFileInfo once parser.Start is known to be set: the deferred wrapping
\* is in force from here on
decodeTimingLine(l, start) ==
    LET fname == TrimPrefix(l, <<filesPrefix>>)
        fnameParts == Split(fname, forDomain)
    IN IF Len(fnameParts) # 2
       THEN WrapTiming(l, Errorf("for domain expected to appears in line"))
       ELSE
       LET filename == TrimSpace(fnameParts[1])
       IN IF filename = <<restartToken>>
          THEN [ZeroFileInfo EXCEPT !.Type = <<restartToken>>]
          ELSE
          LET filenameParts == Split(filename, "_")
          IN IF Len(filenameParts) # 4
             THEN WrapTiming(l, Errorf("filename expected to be formed by 4 parts separated by underscores"))
             ELSE
             LET trimmedDomain == TrimPrefix(filenameParts[2], <<"d">>)
                 domain == ParseInt(trimmedDomain)
                 instant == ParseInstantJoined(filenameParts[3] \o filenameParts[4])
             IN IF ~domain.ok
                THEN WrapTiming(l, Errorf("invalid domain"))
                ELSE IF ~instant.ok
                THEN WrapTiming(l, Errorf("invalid time instant"))
                ELSE [Type |-> filenameParts[1],
                      Domain |-> domain.val,
                      Instant |-> instant.val,
                      HourProgr |-> HoursOf(instant.val - start),
                      Filename |-> filename,
                      Err |-> NoErr]

ErrMissingStart == Errorf("Start line not found yet")

\* variant: a timing line is decoded whether parser.Start is set or not
parseFileInfoNoStartCheck(l, start) == decodeTimingLine(l, start)

parseFileInfo(l, start) ==
    IF start = StartNil
    THEN ErrFileInfo(ErrMissingStart)
    ELSE decodeTimingLine(l, start)

\* ------------------------------------------------------------------------
\* The lines the source may deliver
\* ------------------------------------------------------------------------
LStart == <<"d01", " ", "2021-08-04", "_", "00:00:00", " ", "alloc_space_field:">>
LBadStart == <<"d01", " ", "2021-08-04">>
LRec ==
    <<filesPrefix, "wrfout", "_", "d", "01", "_", "2021-08-04", "_", "01:00:00",
      forDomain, " ", "1:">>
LRec2 ==
    <<filesPrefix, "auxhist23", "_", "d", "03", "_", "2021-08-06", "_", "00:00:00",
      forDomain, " ", "3:">>
LEmptyKind ==
    <<filesPrefix, "_", "d", "01", "_", "2021-08-04", "_", "00:59:00",
      forDomain, " ", "1:">>
LRestart == <<filesPrefix, restartToken, forDomain, " ", "1:">>
LRestartKind ==
    <<filesPrefix, restartToken, "_", "d", "01", "_", "2021-08-04", "_", "01:29:00",
      forDomain, " ", "1:">>
LBadDomain ==
    <<filesPrefix, "wrfout", "_", "d", "F1", "_", "2021-08-04", "_", "01:00:00",
      forDomain, " ", "1:">>
LSuccess == <<"wrf:", " ", successMarker>>
LStartSuccess == <<"d01", " ", "2021-08-04", "_", "00:00:00", " ", successMarker>>
LRecSuccess ==
    <<filesPrefix, "wrfout", "_", "d", "01", "_", "2021-08-04", "_", "01:00:00",
      forDomain, " ", "1:", " ", successMarker>>
LNoise == <<"Domain", " ", "1">>

Lines ==
    {LStart, LBadStart, LRec, LRec2, LEmptyKind, LRestart, LRestartKind,
     LBadDomain, LSuccess, LStartSuccess, LRecSuccess, LNoise}

\* the hooks a caller may register with SetOnClose
Hooks == {"ok", "fail"}

\* ------------------------------------------------------------------------
\* State
\* ------------------------------------------------------------------------
VARIABLES
    ppc,        \* position of the Parse task
    currline,   \* parser.currline
    Start,      \* parser.Start (StartNil while unset)
    perr,       \* the err variable of Parse / runOnClose
    pending,    \* the item of the send on parser.files the parser is blocked in
    hookFn,     \* the local onClose of runOnClose
    linesRead,  \* number of lines scanner.Scan has delivered
    onClose,    \* parser.onClose ("nil" while unset)
    inchClosed, \* parser.files has been closed
    wpc,        \* position of the watchdog goroutine
    wf,         \* the item the watchdog holds (f)
    timer,      \* ticks elapsed since the pending time.After was created
    outClosed,  \* parser.Files has been closed
    cpc,        \* position of the caller
    actual,     \* the accumulator of Collect
    ret,        \* what Collect returned
    handed,     \* items the watchdog received from parser.files, in order
    received,   \* items the caller received from parser.Files, in order
    decoded,    \* Records decoded from timing lines other than `restart`
    hookCalls,  \* number of invocations of the hook
    completed,  \* parseCurrLine has returned "completed"
    hookAtCompl,\* parser.onClose when the completion line was read
    closeCalls, \* number of close(parser.files)
    gap,        \* ticks since the last arrival on parser.files (or creation)
    pgap,       \* ticks the parser spent since its last handoff (or creation)
    waited,     \* ticks the watchdog spent parked in its select, in total
    handlers,   \* parser.handlers
    calls       \* the invocations of handler functions, in order

vars ==
    <<ppc, currline, Start, perr, pending, hookFn, linesRead, onClose, inchClosed,
      wpc, wf, timer, outClosed, cpc, actual, ret, handed, received, decoded,
      hookCalls, completed, hookAtCompl, closeCalls, gap, pgap, waited,
      handlers, calls>>

parserVars == <<ppc, currline, Start, perr, pending, hookFn, linesRead>>
watchdogVars == <<wpc, wf, timer>>
callerVars == <<cpc, actual, ret, handlers, calls>>
clockVars == <<gap, pgap, waited>>

NoRet == [returned |-> FALSE, nilFiles |-> FALSE, files |-> <<>>, err |-> NoErr]

Init ==
    /\ ppc = "scan"
    /\ currline = <<>>
    /\ Start = StartNil
    /\ perr = NoErr
    /\ pending = ZeroFileInfo
    /\ hookFn = "nil"
    /\ linesRead = 0
    /\ onClose = "nil"
    /\ inchClosed = FALSE
    /\ wpc = "select"
    /\ wf = ZeroFileInfo
    /\ timer = 0
    /\ outClosed = FALSE
    /\ cpc = "setup"
    /\ actual = <<>>
    /\ ret = NoRet
    /\ handed = <<>>
    /\ received = <<>>
    /\ decoded = <<>>
    /\ hookCalls = 0
    /\ completed = FALSE
    /\ hookAtCompl = "nil"
    /\ closeCalls = 0
    /\ gap = 0
    /\ pgap = 0
    /\ waited = 0
    /\ handlers = <<>>
    /\ calls = <<>>

\* ------------------------------------------------------------------------
\* The Parse task
\* ------------------------------------------------------------------------
\* variant: the completion line is noted and Parse goes on reading
AfterFileInfoKeepReading(l) ==
    IF isSuccessLine(l)
    THEN /\ ppc' = "scan"
         /\ completed' = TRUE
         /\ hookAtCompl' = onClose
    ELSE /\ ppc' = "scan"
         /\ UNCHANGED <<completed, hookAtCompl>>

\* parseCurrLine from the isSuccessLine test on: "completed" sends Parse to
\* runOnClose(nil), anything else back to scanner.Scan
AfterFileInfo(l) ==
    IF isSuccessLine(l)
    THEN /\ ppc' = "lock"
         /\ completed' = TRUE
         /\ hookAtCompl' = onClose
    ELSE /\ ppc' = "scan"
         /\ UNCHANGED <<completed, hookAtCompl>>

\* variant: Parse records the failure and goes on with the next line
BreakWithContinue(e) ==
    /\ perr' = e
    /\ ppc' = "scan"
    /\ UNCHANGED <<completed, hookAtCompl>>

\* a decode failure breaks the loop of Parse, which calls runOnClose(err)
BreakWith(e) ==
    /\ perr' = e
    /\ ppc' = "lock"
    /\ UNCHANGED <<completed, hookAtCompl>>

\* scanner.Scan delivered the line l: Parse runs parseCurrLine up to its
\* send on parser.files or to its return
ParseLine(l) ==
    /\ ppc = "scan"
    /\ linesRead < MaxLines
    /\ linesRead' = linesRead + 1
    /\ currline' = l
    /\ UNCHANGED <<hookFn, onClose, inchClosed, watchdogVars, outClosed, callerVars,
                   handed, received, hookCalls, closeCalls, clockVars>>
    /\ IF isStartInstantLine(l, Start)
       THEN LET r == parseStartInstant(l)
            IN IF r.err # NoErr
               THEN /\ BreakWith(r.err)
                    /\ UNCHANGED <<Start, pending, decoded>>
               ELSE /\ Start' = r.instant
                    /\ ppc' = "scan"
                    /\ UNCHANGED <<perr, pending, decoded, completed, hookAtCompl>>
       ELSE IF isFileInfoLine(l)
       THEN LET info == parseFileInfo(l, Start)
            IN IF info.Err # NoErr
               THEN /\ BreakWith(info.Err)
                    /\ UNCHANGED <<Start, pending, decoded>>
               ELSE IF info.Type # <<restartToken>>
               THEN /\ pending' = info
                    /\ ppc' = "send"
                    /\ decoded' = Append(decoded, info)
                    /\ UNCHANGED <<Start, perr, completed, hookAtCompl>>
               ELSE /\ AfterFileInfo(l)
                    /\ decoded' = IF info.Filename = <<>> THEN decoded
                                  ELSE Append(decoded, info)
                    /\ UNCHANGED <<Start, perr, pending>>
       ELSE /\ AfterFileInfo(l)
            /\ UNCHANGED <<Start, perr, pending, decoded>>

\* scanner.Scan returned false at end of input, scanner.Err() is nil
ParseEOF ==
    /\ ppc = "scan"
    /\ perr' = ErrIncomplete
    /\ ppc' = "lock"
    /\ UNCHANGED <<currline, Start, pending, hookFn, linesRead, onClose, inchClosed,
                   watchdogVars, outClosed, callerVars, handed, received, decoded,
                   hookCalls, completed, hookAtCompl, closeCalls, clockVars>>

\* the error scanner.Err() reports after a failed read
ErrRead == Errorf("read failure")

\* scanner.Scan returned false on a read failure: err = e; return
ParseReadFail ==
    /\ ppc = "scan"
    /\ perr' = ErrRead
    /\ ppc' = "returned"
    /\ UNCHANGED <<currline, Start, pending, hookFn, linesRead, onClose, inchClosed,
                   watchdogVars, outClosed, callerVars, handed, received, decoded,
                   hookCalls, completed, hookAtCompl, closeCalls, clockVars>>

\* runOnClose after the hook: EmitError(err) or Close()
EmitOrClose(e) ==
    IF e # NoErr
    THEN /\ pending' = ErrFileInfo(e)
         /\ ppc' = "emit"
    ELSE /\ pending' = pending
         /\ ppc' = "close"

\* variant: runOnClose never calls the hook
RunOnCloseLockSkip ==
    /\ ppc = "lock"
    /\ hookFn' = onClose
    /\ EmitOrClose(perr)
    /\ UNCHANGED <<currline, Start, perr, linesRead, onClose, inchClosed,
                   watchdogVars, outClosed, callerVars, handed, received, decoded,
                   hookCalls, completed, hookAtCompl, closeCalls, clockVars>>

\* runOnClose: read parser.onClose under the lock
RunOnCloseLock ==
    /\ ppc = "lock"
    /\ hookFn' = onClose
    /\ IF onClose # "nil"
       THEN /\ ppc' = "hook"
            /\ UNCHANGED pending
       ELSE EmitOrClose(perr)
    /\ UNCHANGED <<currline, Start, perr, linesRead, onClose, inchClosed,
                   watchdogVars, outClosed, callerVars, handed, received, decoded,
                   hookCalls, completed, hookAtCompl, closeCalls, clockVars>>

\* variant: the failure of the hook replaces a prior failure
HookResultOverwrite(fn, e) == IF fn = "fail" THEN ErrHookWrapped ELSE e

\* the error runOnClose goes on with once onClose() has returned
HookResult(fn, e) == IF fn = "fail" /\ e = NoErr THEN ErrHookWrapped ELSE e

\* runOnClose: onClose() is invoked and returns
RunOnCloseHook ==
    /\ ppc = "hook"
    /\ hookCalls' = hookCalls + 1
    /\ perr' = HookResult(hookFn, perr)
    /\ EmitOrClose(perr')
    /\ UNCHANGED <<currline, Start, hookFn, linesRead, onClose, inchClosed,
                   watchdogVars, outClosed, callerVars, handed, received, decoded,
                   completed, hookAtCompl, closeCalls, clockVars>>

\* variant: Close() is called by EmitError and again by runOnClose
ParserCloseTwice ==
    /\ ppc = "close"
    /\ inchClosed' = TRUE
    /\ closeCalls' = closeCalls + 1
    /\ ppc' = IF closeCalls = 0 THEN "close" ELSE "returned"
    /\ UNCHANGED <<currline, Start, perr, pending, hookFn, linesRead, onClose,
                   watchdogVars, outClosed, callerVars, handed, received, decoded,
                   hookCalls, completed, hookAtCompl, clockVars>>

\* Close(): close(parser.files), reached from runOnClose or from EmitError
ParserClose ==
    /\ ppc = "close"
    /\ inchClosed' = TRUE
    /\ closeCalls' = closeCalls + 1
    /\ ppc' = "returned"
    /\ UNCHANGED <<currline, Start, perr, pending, hookFn, linesRead, onClose,
                   watchdogVars, outClosed, callerVars, handed, received, decoded,
                   hookCalls, completed, hookAtCompl, clockVars>>

\* ------------------------------------------------------------------------
\* The watchdog goroutine of NewFileInfoChan
\* ------------------------------------------------------------------------
\* the parser is blocked in a send on parser.files
SenderReady == ppc \in {"send", "emit"}

\* where the parser goes on once its send has been received
AfterSend ==
    IF ppc = "emit"
    THEN /\ ppc' = "close"
         /\ UNCHANGED <<completed, hookAtCompl>>
    ELSE AfterFileInfo(currline)

\* variant: a watchdog without a timer
TimerNeverFires == FALSE

\* the timer of the pending select has fired
TimerFired == timer >= Timeout

\* variant: one timer for the whole loop, never re-created
RearmNever(t) == t

\* the value the timer restarts from when the watchdog re-enters its select:
\* every iteration creates a new time.After(timeout)
Rearm(t) == 0

\* variant: the watchdog takes the next item while its forward is pending
WatchdogRecvEager ==
    /\ wpc \in {"select", "forward"}
    /\ timer <= Timeout
    /\ SenderReady
    /\ wf' = pending
    /\ handed' = Append(handed, pending)
    /\ wpc' = IF IsEmpty(pending) THEN "closing" ELSE "forward"
    /\ AfterSend
    /\ gap' = 0
    /\ pgap' = 0
    /\ UNCHANGED <<currline, Start, perr, pending, hookFn, linesRead, onClose,
                   inchClosed, timer, outClosed, callerVars, received, decoded,
                   hookCalls, closeCalls, waited>>

\* case f := <-inch, an item sent by the parser
WatchdogRecv ==
    /\ wpc = "select"
    /\ timer <= Timeout
    /\ SenderReady
    /\ wf' = pending
    /\ handed' = Append(handed, pending)
    /\ wpc' = IF IsEmpty(pending) THEN "closing" ELSE "forward"
    /\ AfterSend
    /\ gap' = 0
    /\ pgap' = 0
    /\ UNCHANGED <<currline, Start, perr, pending, hookFn, linesRead, onClose,
                   inchClosed, timer, outClosed, callerVars, received, decoded,
                   hookCalls, closeCalls, waited>>

\* case f := <-inch on the closed channel: the zero FileInfo
WatchdogRecvClosed ==
    /\ wpc = "select"
    /\ timer <= Timeout
    /\ inchClosed
    /\ wf' = ZeroFileInfo
    /\ wpc' = IF IsEmpty(ZeroFileInfo) THEN "closing" ELSE "forward"
    /\ UNCHANGED <<parserVars, onClose, inchClosed, timer, outClosed, callerVars,
                   handed, received, decoded, hookCalls, completed, hookAtCompl,
                   closeCalls, clockVars>>

\* variant: the timeout branch returns without forwarding the failure
WatchdogTimeoutSilent ==
    /\ wpc = "select"
    /\ TimerFired
    /\ wf' = ErrFileInfo(ErrTimeout)
    /\ wpc' = "closing"
    /\ UNCHANGED <<parserVars, onClose, inchClosed, timer, outClosed, callerVars,
                   handed, received, decoded, hookCalls, completed, hookAtCompl,
                   closeCalls, clockVars>>

\* case <-time.After(timeout)
WatchdogTimeout ==
    /\ wpc = "select"
    /\ TimerFired
    /\ wf' = ErrFileInfo(ErrTimeout)
    /\ wpc' = "timeout"
    /\ UNCHANGED <<parserVars, onClose, inchClosed, timer, outClosed, callerVars,
                   handed, received, decoded, hookCalls, completed, hookAtCompl,
                   closeCalls, clockVars>>

\* defer close(outch)
WatchdogClose ==
    /\ wpc = "closing"
    /\ outClosed' = TRUE
    /\ wpc' = "closed"
    /\ UNCHANGED <<parserVars, onClose, inchClosed, wf, timer, callerVars,
                   handed, received, decoded, hookCalls, completed, hookAtCompl,
                   closeCalls, clockVars>>

\* variant: the loop forwards the item it holds again instead of waiting
\* for the next one
AfterForwardDup ==
    IF wpc = "timeout" \/ wf.Err # NoErr
    THEN /\ wpc' = "closing"
         /\ timer' = timer
    ELSE /\ wpc' = "forward"
         /\ timer' = timer

\* variant: the loop goes on after it has forwarded a failure
AfterForwardNoStop ==
    IF wpc = "timeout"
    THEN /\ wpc' = "closing"
         /\ timer' = timer
    ELSE /\ wpc' = "select"
         /\ timer' = Rearm(timer)

\* variant: the timer is created when the item arrives, before the forward
AfterForwardArmEarly ==
    IF wpc = "timeout" \/ wf.Err # NoErr
    THEN /\ wpc' = "closing"
         /\ timer' = timer
    ELSE /\ wpc' = "select"
         /\ timer' = gap

\* where the watchdog goes on once outch <- f has been received
AfterForward ==
    IF wpc = "timeout" \/ wf.Err # NoErr
    THEN /\ wpc' = "closing"
         /\ timer' = timer
    ELSE /\ wpc' = "select"
         /\ timer' = Rearm(timer)

\* ------------------------------------------------------------------------
\* The caller: SetOnClose, then Collect
\* ------------------------------------------------------------------------
\* SetOnClose stores the hook; the caller registers one hook at most, before
\* it starts to receive
SetOnClose(fn) ==
    /\ cpc = "setup"
    /\ onClose = "nil"
    /\ onClose' = fn
    /\ UNCHANGED <<parserVars, inchClosed, watchdogVars, outClosed, cpc, actual, ret,
                   handed, received, decoded, hookCalls, completed, hookAtCompl,
                   closeCalls, clockVars, handlers, calls>>

\* the caller calls Collect
CallCollect ==
    /\ cpc = "setup"
    /\ cpc' = "collect"
    /\ UNCHANGED <<parserVars, onClose, inchClosed, watchdogVars, outClosed,
                   actual, ret, handed, received, decoded, hookCalls, completed,
                   hookAtCompl, closeCalls, clockVars, handlers, calls>>

\* variant: on a failure item Collect returns the Records gathered so far
\* along with the failure
CollectRecvKeep ==
    /\ cpc = "collect"
    /\ wpc \in {"forward", "timeout"}
    /\ received' = Append(received, wf)
    /\ AfterForward
    /\ IF wf.Err # NoErr
       THEN /\ ret' = [returned |-> TRUE, nilFiles |-> FALSE, files |-> actual,
                       err |-> wf.Err]
            /\ cpc' = "returned"
            /\ UNCHANGED actual
       ELSE /\ actual' = Append(actual, wf)
            /\ UNCHANGED <<ret, cpc>>
    /\ UNCHANGED <<parserVars, onClose, inchClosed, wf, outClosed, handed, decoded,
                   hookCalls, completed, hookAtCompl, closeCalls, clockVars,
                   handlers, calls>>

\* Collect receives the item the watchdog forwards (outch <- f meets
\* range parser.Files)
CollectRecv ==
    /\ cpc = "collect"
    /\ wpc \in {"forward", "timeout"}
    /\ received' = Append(received, wf)
    /\ AfterForward
    /\ IF wf.Err # NoErr
       THEN /\ ret' = [returned |-> TRUE, nilFiles |-> TRUE, files |-> <<>>,
                       err |-> wf.Err]
            /\ cpc' = "returned"
            /\ UNCHANGED actual
       ELSE /\ actual' = Append(actual, wf)
            /\ UNCHANGED <<ret, cpc>>
    /\ UNCHANGED <<parserVars, onClose, inchClosed, wf, outClosed, handed, decoded,
                   hookCalls, completed, hookAtCompl, closeCalls, clockVars,
                   handlers, calls>>

\* range parser.Files ends on the closed channel: return actual, nil
CollectEnd ==
    /\ cpc = "collect"
    /\ outClosed
    /\ ret' = [returned |-> TRUE, nilFiles |-> FALSE, files |-> actual, err |-> NoErr]
    /\ cpc' = "returned"
    /\ UNCHANGED <<parserVars, onClose, inchClosed, watchdogVars, outClosed, actual,
                   handed, received, decoded, hookCalls, completed, hookAtCompl,
                   closeCalls, clockVars, handlers, calls>>

\* ------------------------------------------------------------------------
\* The caller: OnFileDo, then Execute
\* ------------------------------------------------------------------------
\* the filters and the handler functions a caller may register; the empty
\* kind and the domain 0 are the filter values that accept everything
TypeFilters == {<<>>, <<"wrfout">>}
DomainFilters == {0, 3}
HandlerFns == {"ok", "fail"}

ErrHandler == Wrap("OnFileDo handler failed", <<>>, Errorf("TEST"))

\* variant: a handler with a kind filter is skipped for every Record
FilterPassesKindOnlyAny(h, file) ==
    /\ ~(h.domainFilter # 0 /\ h.domainFilter # file.Domain)
    /\ h.typeFilter = <<>>

\* the two tests of the handler loop that do not continue
FilterPasses(h, file) ==
    /\ ~(h.domainFilter # 0 /\ h.domainFilter # file.Domain)
    /\ ~(h.typeFilter # <<>> /\ h.typeFilter # file.Type)

\* the handler loop of Execute for the item number n, from the handler
\* number i on: the invocations made, in order, and the error returned
RECURSIVE RunHandlersFrom(_, _, _, _)
RunHandlersFrom(file, n, hs, i) ==
    IF i > Len(hs)
    THEN [calls |-> <<>>, err |-> NoErr]
    ELSE IF ~FilterPasses(hs[i], file)
    THEN RunHandlersFrom(file, n, hs, i + 1)
    ELSE IF hs[i].fn = "fail"
    THEN [calls |-> <<[item |-> n, handler |-> i]>>, err |-> ErrHandler]
    ELSE LET rest == RunHandlersFrom(file, n, hs, i + 1)
         IN [calls |-> <<[item |-> n, handler |-> i]>> \o rest.calls,
             err |-> rest.err]

\* variant: the handlers are visited from the last registered to the first
RECURSIVE RunHandlersBackFrom(_, _, _, _)
RunHandlersBackFrom(file, n, hs, i) ==
    IF i < 1
    THEN [calls |-> <<>>, err |-> NoErr]
    ELSE IF ~FilterPasses(hs[i], file)
    THEN RunHandlersBackFrom(file, n, hs, i - 1)
    ELSE IF hs[i].fn = "fail"
    THEN [calls |-> <<[item |-> n, handler |-> i]>>, err |-> ErrHandler]
    ELSE LET rest == RunHandlersBackFrom(file, n, hs, i - 1)
         IN [calls |-> <<[item |-> n, handler |-> i]>> \o rest.calls,
             err |-> rest.err]

RunHandlersReversed(file, n, hs) == RunHandlersBackFrom(file, n, hs, Len(hs))

\* variant: the failure of a handler is dropped and the loop goes on
RECURSIVE RunHandlersIgnoringFrom(_, _, _, _)
RunHandlersIgnoringFrom(file, n, hs, i) ==
    IF i > Len(hs)
    THEN [calls |-> <<>>, err |-> NoErr]
    ELSE IF ~FilterPasses(hs[i], file)
    THEN RunHandlersIgnoringFrom(file, n, hs, i + 1)
    ELSE LET rest == RunHandlersIgnoringFrom(file, n, hs, i + 1)
         IN [calls |-> <<[item |-> n, handler |-> i]>> \o rest.calls,
             err |-> rest.err]

RunHandlersIgnoring(file, n, hs) == RunHandlersIgnoringFrom(file, n, hs, 1)

\* for _, handler := range parser.handlers { ... }
RunHandlers(file, n, hs) == RunHandlersFrom(file, n, hs, 1)

\* OnFileDo appends a handler; the caller chains it before Execute
OnFileDo(tf, df, fn) ==
    /\ cpc = "setup"
    /\ Len(handlers) < MaxHandlers
    /\ handlers' = Append(handlers, [fn |-> fn, typeFilter |-> tf, domainFilter |-> df])
    /\ UNCHANGED <<parserVars, onClose, inchClosed, watchdogVars, outClosed, cpc,
                   actual, ret, handed, received, decoded, hookCalls, completed,
                   hookAtCompl, closeCalls, clockVars, calls>>

CallExecute ==
    /\ cpc = "setup"
    /\ cpc' = "execute"
    /\ UNCHANGED <<parserVars, onClose, inchClosed, watchdogVars, outClosed,
                   actual, ret, handed, received, decoded, hookCalls, completed,
                   hookAtCompl, closeCalls, clockVars, handlers, calls>>

\* Execute receives the item the watchdog forwards and runs the handler loop
\* on it
ExecuteRecv ==
    /\ cpc = "execute"
    /\ wpc \in {"forward", "timeout"}
    /\ received' = Append(received, wf)
    /\ AfterForward
    /\ IF wf.Err # NoErr
       THEN /\ ret' = [returned |-> TRUE, nilFiles |-> FALSE, files |-> <<>>,
                       err |-> wf.Err]
            /\ cpc' = "returned"
            /\ UNCHANGED calls
       ELSE LET r == RunHandlers(wf, Len(received) + 1, handlers)
            IN /\ calls' = calls \o r.calls
               /\ IF r.err # NoErr
                  THEN /\ ret' = [returned |-> TRUE, nilFiles |-> FALSE,
                                  files |-> <<>>, err |-> r.err]
                       /\ cpc' = "returned"
                  ELSE UNCHANGED <<ret, cpc>>
    /\ UNCHANGED <<parserVars, onClose, inchClosed, wf, outClosed, handed, decoded,
                   hookCalls, completed, hookAtCompl, closeCalls, clockVars,
                   actual, handlers>>

\* range parser.Files ends on the closed channel: return nil
ExecuteEnd ==
    /\ cpc = "execute"
    /\ outClosed
    /\ ret' = [returned |-> TRUE, nilFiles |-> FALSE, files |-> <<>>, err |-> NoErr]
    /\ cpc' = "returned"
    /\ UNCHANGED <<parserVars, onClose, inchClosed, watchdogVars, outClosed, actual,
                   handed, received, decoded, hookCalls, completed, hookAtCompl,
                   closeCalls, clockVars, handlers, calls>>

\* ------------------------------------------------------------------------
\* Time
\* ------------------------------------------------------------------------
\* variant: the timer also runs while the watchdog is blocked in its forward
TimerRunningInForward == wpc \in {"select", "forward"}

\* variant: the timer starts with the first item, not with the parser
TimerRunningFromFirstItem == wpc = "select" /\ handed # <<>>

\* the timer of time.After runs while the watchdog is parked in its select
TimerRunning == wpc = "select"

\* the parser is doing its own work (reading, decoding, running the hook),
\* not blocked in a handoff
ProducerRunning == ~SenderReady /\ ~inchClosed

Cap(n) == IF n <= Timeout THEN n + 1 ELSE n

\* one unit of time passes; a handoff both sides are ready for, and the
\* receive on a closed channel, happen before any time passes
Tick ==
    /\ wpc \in {"select", "forward"}
    /\ ~(wpc = "select" /\ (SenderReady \/ inchClosed))
    /\ timer' = IF TimerRunning THEN Cap(timer) ELSE timer
    /\ gap' = Cap(gap)
    /\ pgap' = IF ProducerRunning THEN Cap(pgap) ELSE pgap
    /\ waited' = IF TimerRunning THEN Cap(waited) ELSE waited
    /\ <<timer', gap', pgap', waited'>> # <<timer, gap, pgap, waited>>
    /\ UNCHANGED <<parserVars, onClose, inchClosed, wpc, wf, outClosed, callerVars,
                   handed, received, decoded, hookCalls, completed, hookAtCompl,
                   closeCalls>>

\* ------------------------------------------------------------------------
\* Specification
\* ------------------------------------------------------------------------
Next ==
    \/ \E l \in Lines : ParseLine(l)
    \/ ParseEOF
    \/ ParseReadFail
    \/ RunOnCloseLock
    \/ RunOnCloseHook
    \/ ParserClose
    \/ WatchdogRecv
    \/ WatchdogRecvClosed
    \/ WatchdogTimeout
    \/ WatchdogClose
    \/ \E fn \in Hooks : SetOnClose(fn)
    \/ CallCollect
    \/ CollectRecv
    \/ CollectEnd
    \/ Tick

Spec == Init /\ [][Next]_vars

\* the same parser and watchdog with a caller that registers handlers and
\* calls Execute, in runs shorter than the configured timeout: no time passes
\* and the timer never fires
NextExec ==
    \/ \E l \in Lines : ParseLine(l)
    \/ ParseEOF
    \/ ParseReadFail
    \/ RunOnCloseLock
    \/ ParserClose
    \/ WatchdogRecv
    \/ WatchdogRecvClosed
    \/ WatchdogClose
    \/ \E tf \in TypeFilters, df \in DomainFilters, fn \in HandlerFns :
           OnFileDo(tf, df, fn)
    \/ CallExecute
    \/ ExecuteRecv
    \/ ExecuteEnd

SpecExec == Init /\ [][NextExec]_vars

\* ------------------------------------------------------------------------
\* Decoding of one timing line, for every start instant and every filename
\* the literals of the model can spell
\* ------------------------------------------------------------------------
DecodeStarts ==
    {DateLiterals[d] + TimeLiterals[t] :
        d \in DOMAIN DateLiterals, t \in DOMAIN TimeLiterals}

\* the second part of a filename: d01, d03, d0, d-1, 01, dF1
DomainParts ==
    {<<"d", "01">>, <<"d", "03">>, <<"d", "0">>, <<"d", "-1">>, <<"01">>,
     <<"d", "F1">>}

TimingLine(kind, dpart, date, time) ==
    <<filesPrefix, kind, "_">> \o dpart
        \o <<"_", date, "_", time, forDomain, " ", "1:">>

DecodeLines ==
    {TimingLine("wrfout", p, d, t) :
        p \in DomainParts, d \in DOMAIN DateLiterals, t \in DOMAIN TimeLiterals}

\* the parser after a start-instant line has been decoded
InitDecode ==
    /\ ppc = "scan"
    /\ currline = <<>>
    /\ Start \in DecodeStarts
    /\ perr = NoErr
    /\ pending = ZeroFileInfo
    /\ hookFn = "nil"
    /\ linesRead = 0
    /\ onClose = "nil"
    /\ inchClosed = FALSE
    /\ wpc = "select"
    /\ wf = ZeroFileInfo
    /\ timer = 0
    /\ outClosed = FALSE
    /\ cpc = "setup"
    /\ actual = <<>>
    /\ ret = NoRet
    /\ handed = <<>>
    /\ received = <<>>
    /\ decoded = <<>>
    /\ hookCalls = 0
    /\ completed = FALSE
    /\ hookAtCompl = "nil"
    /\ closeCalls = 0
    /\ gap = 0
    /\ pgap = 0
    /\ waited = 0
    /\ handlers = <<>>
    /\ calls = <<>>

NextDecode == \E l \in DecodeLines : ParseLine(l)

SpecDecode == InitDecode /\ [][NextDecode]_vars

\* ------------------------------------------------------------------------
\* Decoding of one timing line that may break several rules at once, with
\* parser.Start set or unset
\* ------------------------------------------------------------------------
\* filenames: well-formed, the token restart, three parts with a bad domain,
\* a bad domain with a bad instant, a bad instant, a bad domain, five parts
OrderFilenames ==
    {<<"wrfout", "_", "d", "01", "_", "2021-08-04", "_", "01:00:00">>,
     <<restartToken>>,
     <<"wrfout", "_", "d", "F1", "_", "2021-08-04">>,
     <<"wrfout", "_", "d", "F1", "_", "2021-08-04", "_", "RR:00:00">>,
     <<"wrfout", "_", "d", "01", "_", "2021-08-04", "_", "RR:00:00">>,
     <<"wrfout", "_", "d", "F1", "_", "2021-08-04", "_", "01:00:00">>,
     <<"wrfout", "_", "d", "01", "_", "2021-08-04", "_", "01:00:00", "_", "x">>}

\* what follows the filename: the marker once, not at all, twice
OrderTails ==
    {<<forDomain, " ", "1:">>, <<" ", "1:">>, <<forDomain, forDomain, " ", "1:">>}

OrderLines == {<<filesPrefix>> \o f \o t : f \in OrderFilenames, t \in OrderTails}

InitDecodeOrder ==
    /\ ppc = "scan"
    /\ currline = <<>>
    /\ Start \in DecodeStarts \cup {StartNil}
    /\ perr = NoErr
    /\ pending = ZeroFileInfo
    /\ hookFn = "nil"
    /\ linesRead = 0
    /\ onClose = "nil"
    /\ inchClosed = FALSE
    /\ wpc = "select"
    /\ wf = ZeroFileInfo
    /\ timer = 0
    /\ outClosed = FALSE
    /\ cpc = "setup"
    /\ actual = <<>>
    /\ ret = NoRet
    /\ handed = <<>>
    /\ received = <<>>
    /\ decoded = <<>>
    /\ hookCalls = 0
    /\ completed = FALSE
    /\ hookAtCompl = "nil"
    /\ closeCalls = 0
    /\ gap = 0
    /\ pgap = 0
    /\ waited = 0
    /\ handlers = <<>>
    /\ calls = <<>>

NextDecodeOrder == \E l \in OrderLines : ParseLine(l)

SpecDecodeOrder == InitDecodeOrder /\ [][NextDecodeOrder]_vars

\* ------------------------------------------------------------------------
\* ParseFile on a path that cannot be opened: NewParser, then the goroutine
\* `go parser.emitError(err)`
\* ------------------------------------------------------------------------
ErrOpen == Errorf("open doesnt-exist: file does not exist")

\* NewParser has started the watchdog and the go statement has been
\* executed; the new goroutine has not run yet
InitOpenFail ==
    /\ ppc = "spawned"
    /\ currline = <<>>
    /\ Start = StartNil
    /\ perr = ErrOpen
    /\ pending = ZeroFileInfo
    /\ hookFn = "nil"
    /\ linesRead = 0
    /\ onClose = "nil"
    /\ inchClosed = FALSE
    /\ wpc = "select"
    /\ wf = ZeroFileInfo
    /\ timer = 0
    /\ outClosed = FALSE
    /\ cpc = "setup"
    /\ actual = <<>>
    /\ ret = NoRet
    /\ handed = <<>>
    /\ received = <<>>
    /\ decoded = <<>>
    /\ hookCalls = 0
    /\ completed = FALSE
    /\ hookAtCompl = "nil"
    /\ closeCalls = 0
    /\ gap = 0
    /\ pgap = 0
    /\ waited = 0
    /\ handlers = <<>>
    /\ calls = <<>>

\* the goroutine starts to run emitError: parser.files <- FileInfo{Err: err}
EmitErrorStart ==
    /\ ppc = "spawned"
    /\ pending' = ErrFileInfo(perr)
    /\ ppc' = "emit"
    /\ UNCHANGED <<currline, Start, perr, hookFn, linesRead, onClose, inchClosed,
                   watchdogVars, outClosed, callerVars, handed, received, decoded,
                   hookCalls, completed, hookAtCompl, closeCalls, clockVars>>

NextOpenFail ==
    \/ EmitErrorStart
    \/ ParserClose
    \/ WatchdogRecv
    \/ WatchdogTimeout
    \/ WatchdogClose
    \/ CallCollect
    \/ CollectRecv
    \/ Tick

SpecOpenFail == InitOpenFail /\ [][NextOpenFail]_vars

\* ------------------------------------------------------------------------
\* The three goroutines under fair scheduling, with a caller that calls
\* Collect or Execute
\* ------------------------------------------------------------------------
\* the steps Parse takes on its own once the source has answered; what the
\* source delivers, and when, is left to the source
ParserTask == RunOnCloseLock \/ RunOnCloseHook \/ ParserClose

WatchdogTask == WatchdogRecv \/ WatchdogRecvClosed \/ WatchdogTimeout \/ WatchdogClose

\* the caller goes on to Collect or Execute and keeps receiving
ConsumerTask ==
    \/ CallCollect \/ CollectRecv \/ CollectEnd
    \/ CallExecute \/ ExecuteRecv \/ ExecuteEnd

\* the lines of the fair runs: one of each outcome of parseCurrLine
LiveLines == {LStart, LRec, LEmptyKind, LBadDomain, LSuccess}

NextLive ==
    \/ \E l \in LiveLines : ParseLine(l)
    \/ ParseEOF
    \/ ParseReadFail
    \/ RunOnCloseLock
    \/ RunOnCloseHook
    \/ ParserClose
    \/ WatchdogRecv
    \/ WatchdogRecvClosed
    \/ WatchdogTimeout
    \/ WatchdogClose
    \/ \E fn \in Hooks : SetOnClose(fn)
    \/ CallCollect
    \/ CollectRecv
    \/ CollectEnd
    \/ \E fn \in HandlerFns : OnFileDo(<<>>, 0, fn)
    \/ CallExecute
    \/ ExecuteRecv
    \/ ExecuteEnd
    \/ Tick

\* every goroutine that can take a step is scheduled, and time passes
SpecLive ==
    /\ Init
    /\ [][NextLive]_vars
    /\ WF_vars(ParserTask)
    /\ WF_vars(WatchdogTask)
    /\ WF_vars(ConsumerTask)
    /\ WF_vars(Tick)

\* ------------------------------------------------------------------------
\* Properties
\* ------------------------------------------------------------------------
TimeoutItem == ErrFileInfo(ErrTimeout)

\* the watchdog has taken the timeout branch of its select
TimedOut == wf = TimeoutItem

IsFailure(f) == f.Err # NoErr

Failures(q) == SelectSeq(q, IsFailure)

Records(q) == SelectSeq(q, LAMBDA f : ~IsFailure(f))

Last(q) == q[Len(q)]

\* C1 (as stated): the items the caller has received from parser.Files are
\* always a prefix of the items handed off on parser.files.
C1_ReceivedPrefixOfHanded == IsPrefix(received, handed)

\* C1 (amended): leaving out a final timeout failure, which the watchdog
\* itself synthesizes, the items the caller has received from parser.Files
\* are always a prefix, in order and without repetition, of the items handed
\* off on parser.files.
C1_RelayedPrefixOfHanded ==
    LET n == Len(received)
    IN IF n > 0 /\ received[n] = TimeoutItem
       THEN IsPrefix(SubSeq(received, 1, n - 1), handed)
       ELSE IsPrefix(received, handed)

\* two different Records were relayed in order and a timeout failure followed
C1_Witness ==
    /\ Len(received) = 3
    /\ received[1] # received[2]
    /\ ~IsFailure(received[1]) /\ ~IsFailure(received[2])
    /\ received[3] = TimeoutItem
    /\ Len(handed) = 2

\* C2: when Collect has returned and the timer never fired, the Records the
\* caller received are exactly the Records Parse decoded from timing lines
\* (kind `restart` aside), each once, in order and with unchanged fields.
C2_DecodedDeliveredOnce ==
    (cpc = "returned" /\ ~TimedOut)
        => Records(received)
             = SelectSeq(decoded, LAMBDA f : f.Type # <<restartToken>>)

\* C3: a failure item is the last item the caller receives, and when it has
\* been received the watchdog has left its loop and closes parser.Files.
C3_FailureIsLast ==
    \A i \in 1..Len(received) :
        IsFailure(received[i])
            => /\ i = Len(received)
               /\ wpc \in {"closing", "closed"}

\* Records, then a failure, then parser.Files closed
C3_Witness ==
    /\ Len(received) >= 2
    /\ IsFailure(Last(received))
    /\ ~IsFailure(received[1])
    /\ outClosed

\* C4: the caller never observes two failures, and when the run has failed
\* (the parser holds a failure) and Collect has returned, it has observed
\* exactly one.
C4_ExactlyOneFailure ==
    /\ Len(Failures(received)) <= 1
    /\ (cpc = "returned" /\ perr # NoErr) => Len(Failures(received)) = 1

\* C5: when the source ended without a completion line and every line
\* decoded cleanly, and the timer never fired, Collect returns no Records and
\* the failure `input stream completed without success log line`, the last
\* item received.
C5_IncompleteFailure ==
    (perr = ErrIncomplete /\ cpc = "returned" /\ ~TimedOut)
        => /\ ret.nilFiles
           /\ ret.err = ErrIncomplete
           /\ Len(received) > 0
           /\ Last(received) = ErrFileInfo(ErrIncomplete)

\* C6: once the watchdog has waited for longer than the configured duration
\* it can only take the timeout branch; it then forwards the synthesized
\* timeout failure, exactly one and as the last item, before it closes
\* parser.Files, and Collect returns that failure.
C6_SilenceEndsInTimeout ==
    /\ (wpc = "timeout" => wf = TimeoutItem)
    /\ (timer > Timeout /\ wpc # "select")
           => (TimedOut /\ wpc \in {"timeout", "closing", "closed"})
    /\ (TimedOut /\ wpc \in {"closing", "closed"})
           => /\ Len(received) > 0
              /\ Last(received) = TimeoutItem
              /\ Len(Failures(received)) = 1
    /\ (timer > Timeout /\ cpc = "returned")
           => (ret.nilFiles /\ ret.err = ErrTimeout)

\* the producer stayed silent after a Record for longer than the duration,
\* and the run ended in the timeout failure
C6_Witness ==
    /\ timer > Timeout
    /\ Len(handed) >= 1
    /\ outClosed
    /\ cpc = "returned"
    /\ ret.err = ErrTimeout

\* C7: a timeout failure is produced only if the gap that precedes it (since
\* the last arrival on parser.files, or since creation) reached the
\* configured duration; gaps that all stay below it never produce one.
C7_ShortGapsNeverTimeOut == TimedOut => gap >= Timeout

\* the watchdog waited for longer than the duration in total, spread over
\* gaps shorter than it, and the run ended cleanly with a Record
C7_Witness ==
    /\ waited > Timeout
    /\ ~TimedOut
    /\ cpc = "returned"
    /\ ret.err = NoErr
    /\ Len(ret.files) >= 1

\* C8: a timeout failure is produced only if the parser itself spent the
\* configured duration without a handoff; time spent in a pending forward to
\* the caller does not count.
C8_SlowConsumerNeverTimesOut == TimedOut => pgap >= Timeout

\* a forward has stayed pending for longer than the duration, the parser is
\* already blocked in its next handoff, and no timeout failure was produced
C8_Witness ==
    /\ gap > Timeout
    /\ pgap < Timeout
    /\ wpc = "forward"
    /\ SenderReady
    /\ ~TimedOut

\* C9: the hook is invoked at most once, and when a hook was registered as
\* the completion line was read it has been invoked exactly once as soon as
\* runOnClose goes on to EmitError or Close, so before parser.files is closed
\* or a terminal item is handed off.
C9_HookOnceBeforeClose ==
    /\ hookCalls <= 1
    /\ (completed /\ hookAtCompl # "nil")
           => /\ (ppc \in {"lock", "hook"}) <=> (hookCalls = 0)
              /\ hookCalls = 0 => (~inchClosed /\ Failures(handed) = <<>>)

\* a registered hook was invoked once and parser.files was closed afterwards
C9_Witness ==
    /\ completed
    /\ hookAtCompl # "nil"
    /\ hookCalls = 1
    /\ inchClosed

\* C10: after a completion line, once Collect has returned and the timer
\* never fired: if the hook returned a failure, Collect returned no Records
\* and that failure wrapped as `OnClose hook failed`, the last item received;
\* otherwise Collect returned no failure.
C10_HookOutcomeDelivered ==
    (completed /\ cpc = "returned" /\ ~TimedOut)
        => IF hookCalls = 1 /\ hookFn = "fail"
           THEN /\ ret.nilFiles
                /\ ret.err = ErrHookWrapped
                /\ Len(received) > 0
                /\ Last(received) = ErrFileInfo(ErrHookWrapped)
           ELSE ret.err = NoErr

\* runOnClose has read parser.onClose under the lock
HookRead == ppc \in {"hook", "emit", "close"} \/ closeCalls > 0

\* C11: the hook a run invokes is the one the caller registers: whenever
\* runOnClose has read parser.onClose and the caller registers a hook, the
\* hook that was read is the registered one (registration is never overtaken
\* by the run).
C11_HookIsTheRegisteredOne == (HookRead /\ onClose # "nil") => hookFn = onClose

\* C12: when Collect has returned: if an item it received carries a failure,
\* it returned no Records (nil) and that failure; otherwise it returned every
\* item it received, in order, and no failure.
C12_CollectResult ==
    cpc = "returned"
        => IF Failures(received) # <<>>
           THEN /\ ret.nilFiles
                /\ ret.files = <<>>
                /\ ret.err = Failures(received)[1].Err
           ELSE /\ ~ret.nilFiles
                /\ ret.files = received
                /\ ret.err = NoErr

\* Collect had gathered a Record when a failure item arrived, and discarded it
C12_Witness ==
    /\ cpc = "returned"
    /\ Len(received) >= 2
    /\ ~IsFailure(received[1])
    /\ IsFailure(Last(received))
    /\ ret.nilFiles

\* the parser is blocked in a send on parser.files that the watchdog, which
\* has left its loop, will never receive
ParserStuck == SenderReady /\ wpc \in {"closing", "closed"}

\* the watchdog is blocked in a send on parser.Files that the caller, which
\* has returned, will never receive
WatchdogStuck == wpc \in {"forward", "timeout"} /\ cpc = "returned"

\* C13: once Collect has returned a failure, whatever its kind (a watchdog
\* timeout included), neither the parser nor the watchdog is left blocked in
\* a handoff that nobody will take.
C13_CollectLeavesNoTaskBlocked ==
    (cpc = "returned" /\ ret.err # NoErr) => (~ParserStuck /\ ~WatchdogStuck)

\* the invocations Execute owes to the Records it has received: the pairs
\* (item, handler) whose filter passes
PassingPairs ==
    {c \in [item : 1..Len(received), handler : 1..Len(handlers)] :
        /\ ~IsFailure(received[c.item])
        /\ \/ handlers[c.handler].typeFilter = <<>>
           \/ handlers[c.handler].typeFilter = received[c.item].Type
        /\ \/ handlers[c.handler].domainFilter = 0
           \/ handlers[c.handler].domainFilter = received[c.item].Domain}

CallSet == {calls[k] : k \in 1..Len(calls)}

\* Execute has returned the failure of a handler
HandlerFailed == ret.err = ErrHandler

\* C14: a handler is invoked for a Record only if its kind filter is `any`
\* or equals the Record's kind and its domain filter is `any` or equals the
\* Record's domain; and as long as no handler has failed, every handler whose
\* two filters pass has been invoked for every Record received.
C14_InvokedIffFiltersPass ==
    /\ CallSet \subseteq PassingPairs
    /\ ~HandlerFailed => CallSet = PassingPairs

\* two Records of different kind and domain were received by an Execute with
\* a handler filtered on a kind and one filtered on a domain; some
\* invocations were made and some skipped
C14_Witness ==
    /\ Len(Records(received)) = 2
    /\ received[1].Type # received[2].Type
    /\ Len(handlers) = 2
    /\ handlers[1].typeFilter # <<>> /\ handlers[1].domainFilter = 0
    /\ handlers[2].typeFilter = <<>> /\ handlers[2].domainFilter # 0
    /\ Len(calls) = 2
    /\ ~HandlerFailed

\* the invocations in q are sorted by Record, and for one Record by the
\* position of the handler in parser.handlers
InRegistrationOrder(q) ==
    \A j, k \in 1..Len(q) :
        j < k => \/ q[j].item < q[k].item
                 \/ (q[j].item = q[k].item /\ q[j].handler < q[k].handler)

\* C15: the handlers are invoked in the order they were registered, Record
\* by Record: the invocations for a Record are all made in the step that
\* receives it, before the next one is received, and none is reordered.
C15_HandlersInRegistrationOrder ==
    [][/\ InRegistrationOrder(calls')
       /\ calls' # calls
            => /\ Len(received') = Len(received) + 1
               /\ IsPrefix(calls, calls')
               /\ \A k \in (Len(calls) + 1)..Len(calls') :
                      calls'[k].item = Len(received')]_vars

\* two handlers ran for the first Record, in registration order, and then a
\* handler ran for the second Record
C15_Witness ==
    /\ Len(calls) >= 3
    /\ calls[1] = [item |-> 1, handler |-> 1]
    /\ calls[2] = [item |-> 1, handler |-> 2]
    /\ calls[3].item = 2

\* C16: the invocation of a handler that returns a failure is the last
\* invocation Execute makes, and Execute has then returned that failure
\* wrapped as `OnFileDo handler failed`.
C16_HandlerFailureAborts ==
    \A k \in 1..Len(calls) :
        handlers[calls[k].handler].fn = "fail"
            => /\ k = Len(calls)
               /\ cpc = "returned"
               /\ ret.err = ErrHandler

\* the first of two handlers failed on the first Record: the second, which
\* accepts every Record, was not invoked, nor was any handler for the Record
\* the watchdog holds next
C16_Witness ==
    /\ Len(handlers) = 2
    /\ handlers[1].fn = "fail"
    /\ handlers[2] = [fn |-> "ok", typeFilter |-> <<>>, domainFilter |-> 0]
    /\ calls = <<[item |-> 1, handler |-> 1]>>
    /\ ret.err = ErrHandler
    /\ wpc = "forward"
    /\ ~IsFailure(wf)

\* C17: a timing line read while parser.Start is unset ends the run with the
\* failure `Start line not found yet`, handed off as the terminal item, and
\* no Record is decoded or handed off while parser.Start is unset.
C17_NoRecordWithoutStart ==
    /\ Start = StartNil => (decoded = <<>> /\ Records(handed) = <<>>)
    /\ (Start = StartNil /\ isFileInfoLine(currline))
           => /\ perr = ErrMissingStart
              /\ ppc \notin {"scan", "send"}
              /\ ppc \in {"close", "returned"}
                     => handed = <<ErrFileInfo(ErrMissingStart)>>

\* a well-formed timing line came before any start line, and Collect
\* returned the missing-start failure
C17_Witness ==
    /\ currline = LRec
    /\ Start = StartNil
    /\ cpc = "returned"
    /\ ret.nilFiles
    /\ ret.err = ErrMissingStart

\* l is a timing line whose filename, trimmed, is the token `restart`
IsRestartLine(l) ==
    /\ isFileInfoLine(l)
    /\ LET parts == Split(TrimPrefix(l, <<filesPrefix>>), forDomain)
       IN Len(parts) = 2 /\ TrimSpace(parts[1]) = <<restartToken>>

\* C18: a timing line whose filename is `restart` produces no failure and no
\* Record wherever it is read, before the start line included; and when the
\* completion line has been read the parser has handed off as many Records
\* as it read timing lines with another filename.
C18_RestartElided ==
    /\ IsRestartLine(currline)
           => /\ perr # ErrMissingStart
              /\ perr.line # currline
              /\ ppc # "send"
    /\ completed => Len(Records(handed)) = Len(decoded)

\* the failures of parseFileInfo and parseStartInstant
DecodeMessages ==
    {"Start line not found yet",
     "for domain expected to appears in line",
     "filename expected to be formed by 4 parts separated by underscores",
     "invalid domain",
     "invalid time instant",
     "line must contains at leas 3 space separated parts",
     "parsing time"}

\* C19: a failure produced while decoding a timing line or a start-instant
\* line carries the raw text of that line, in the parser and in the item
\* handed off for it.
C19_DecodeFailureCarriesLine ==
    /\ perr.msg \in DecodeMessages => perr.line = currline
    /\ \A k \in 1..Len(handed) :
           handed[k].Err.msg \in DecodeMessages => handed[k].Err.line = currline

\* C20: when reading the source has failed (no completion line read, no
\* decode failure), Parse hands off the read failure as the last item on
\* parser.files before it returns, and it is the failure Collect returns.
C20_ReadFailureEmitted ==
    perr = ErrRead
        => /\ ppc = "returned"
                  => /\ Len(handed) > 0
                     /\ Last(handed) = ErrFileInfo(ErrRead)
           /\ cpc = "returned" => ret.err = ErrRead

\* the text of l ends with `SUCCESS COMPLETE WRF`
EndsWithMarker(l) == Len(l) > 0 /\ l[Len(l)] = successMarker

\* Parse has just taken a line from the scanner
LineRead == linesRead' = linesRead + 1

\* C21 (as stated): every line read that ends with the completion marker
\* completes the run (at once, or once the Record decoded from it has been
\* handed off), whatever parser.Start is and whatever the line begins with.
C21_MarkerAlwaysCompletes ==
    [][(LineRead /\ EndsWithMarker(currline'))
           => (completed' \/ ppc' = "send")]_vars

\* C21 (amended): a line read that ends with the completion marker completes
\* the run unless it is taken for the start-instant line (it begins with
\* `d01 ` while parser.Start is unset) or its decoding as a timing line
\* fails; a timing line completes the run once its Record has been handed
\* off.
C21_MarkerCompletesUnlessStartOrFailure ==
    [][/\ (/\ LineRead
           /\ EndsWithMarker(currline')
           /\ ~(HasPrefix(currline', <<"d01", " ">>) /\ Start = StartNil)
           /\ perr' = NoErr)
              => (completed' \/ ppc' = "send")
       /\ (ppc = "send" /\ ppc' # "send" /\ EndsWithMarker(currline))
              => completed']_vars

\* a timing line ending with the marker gave its Record and then completed
\* the run
C21_Witness ==
    /\ currline = LRecSuccess
    /\ completed
    /\ Len(Records(handed)) >= 1

\* C22: the HourProgr of a decoded Record is the difference between its
\* instant and parser.Start in hours, truncated toward zero: for a
\* difference of m minutes it is the h with 60h <= m < 60h + 60 when m >= 0
\* and with 60h - 60 < m <= 60h when m <= 0 (59 gives 0, 89 gives 1, -59
\* gives 0, -89 gives -1, 0 gives 0).
C22_HourOffsetTruncates ==
    ppc = "send"
        => LET m == pending.Instant - Start
               h == pending.HourProgr
           IN /\ m >= 0 => (60 * h <= m /\ m < 60 * h + 60)
              /\ m <= 0 => (60 * h - 60 < m /\ m <= 60 * h)
              /\ m = 59 => h = 0
              /\ m = 89 => h = 1
              /\ m = -59 => h = 0
              /\ m = -89 => h = -1
              /\ m = 0 => h = 0

\* a Record 89 minutes before the start instant was decoded with offset -1
C22_Witness ==
    /\ ppc = "send"
    /\ pending.Instant - Start = -89
    /\ pending.HourProgr = -1

\* the decimal literals of the model that spell a positive integer
PositiveLiterals == {n \in DOMAIN IntLiterals : IntLiterals[n] > 0}

\* the second underscore-separated part of the filename of the line read
DomainPart == Split(TrimSpace(Split(TrimPrefix(currline, <<filesPrefix>>), forDomain)[1]), "_")[2]

\* the part is the letter d followed by a positive integer
WellFormedDomainPart(p) == Len(p) = 2 /\ p[1] = "d" /\ p[2] \in PositiveLiterals

\* C23: a timing line yields a Record only if the second part of its
\* filename is `d` followed by a positive integer; with any other second
\* part (no leading `d`, `d0`, `d-1`) decoding fails with `invalid domain`.
C23_DomainMustBePositive ==
    linesRead > 0
        => IF WellFormedDomainPart(DomainPart)
           THEN ppc = "send" /\ pending.Domain > 0
           ELSE ppc # "send" /\ perr.msg = "invalid domain"

\* C24: on a path that cannot be opened, under every interleaving of the
\* emitting goroutine and the watchdog, Collect returns no Records and the
\* open failure, the only item it receives; never a timeout failure.
C24_OpenFailureDelivered ==
    cpc = "returned"
        => /\ ret.nilFiles
           /\ ret.err = ErrOpen
           /\ received = <<ErrFileInfo(ErrOpen)>>

\* Parse holds a failure of parseFileInfo or parseStartInstant
DecodeFailed == perr.msg \in DecodeMessages

\* C25: from a decode failure on, Parse reads no further line and decodes no
\* further Record, and the only item it still hands off on parser.files is
\* that failure, once.
C25_DecodeFailureEndsParse ==
    [][DecodeFailed
         => /\ linesRead' = linesRead
            /\ decoded' = decoded
            /\ perr' = perr
            /\ handed' # handed
                 => /\ handed' = Append(handed, ErrFileInfo(perr))
                    /\ Failures(handed) = <<>>]_vars

\* a Record was handed off, the next line failed to decode, and the failure
\* was the last item before parser.files was closed
C25_Witness ==
    /\ Len(handed) >= 2
    /\ ~IsFailure(handed[1])
    /\ Last(handed).Err.msg = "invalid domain"
    /\ inchClosed

\* C26: once the completion line has been read Parse takes no further line
\* and decodes nothing more; the only item it may still hand off is the
\* failure of the hook, and when the hook succeeds (or none is registered)
\* the parser ends without a failure.
C26_NothingAfterCompletion ==
    [][completed
         => /\ linesRead' = linesRead
            /\ decoded' = decoded
            /\ perr' \in {NoErr, ErrHookWrapped}
            /\ handed' # handed => handed' = Append(handed, ErrFileInfo(ErrHookWrapped))
            /\ hookFn' # "fail" => (perr' = NoErr /\ handed' = handed)]_vars

\* after a Record and the completion line the hook succeeded and the parser
\* closed parser.files without a failure
C26_Witness ==
    /\ completed
    /\ hookCalls = 1
    /\ hookFn = "ok"
    /\ inchClosed
    /\ Len(handed) >= 1
    /\ Failures(handed) = <<>>

\* C27: parser.Start is written only while it is unset,
\* by a line that begins with `d01 `; once set it never changes, and a later
\* line beginning with `d01 `, well-formed or not, produces no failure and
\* no Record.
C27_StartWrittenOnce ==
    [][/\ Start' # Start
            => (Start = StartNil /\ LineRead /\ HasPrefix(currline', <<"d01", " ">>))
       /\ (Start # StartNil /\ LineRead /\ HasPrefix(currline', <<"d01", " ">>))
            => /\ Start' = Start
               /\ perr' = NoErr
               /\ decoded' = decoded
               /\ ppc' # "send"]_vars

\* a malformed line beginning with `d01 ` was read after the start instant
\* was set and a Record handed off, and Parse went back to read on
C27_Witness ==
    /\ Start # StartNil
    /\ currline = LBadStart
    /\ Len(Records(handed)) = 1
    /\ perr = NoErr
    /\ ppc = "scan"

\* C28: when the hook has run and failed, the failure the parser ends with
\* and hands off is the failure of the hook exactly when the run had read
\* its completion line; after a decode failure or a missing completion
\* marker it is that prior failure.
C28_PriorFailureWins ==
    (hookCalls = 1 /\ hookFn = "fail")
        => /\ perr # NoErr
           /\ completed <=> perr = ErrHookWrapped
           /\ ~completed => (DecodeFailed \/ perr = ErrIncomplete)
           /\ pending = ErrFileInfo(perr)
           /\ \A k \in 1..Len(handed) :
                  IsFailure(handed[k]) => handed[k] = ErrFileInfo(perr)

\* the hook failed after a decode failure, and Collect returned the decode
\* failure
C28_Witness ==
    /\ hookCalls = 1
    /\ hookFn = "fail"
    /\ DecodeFailed
    /\ cpc = "returned"
    /\ ret.err = perr

\* the Records Parse has decoded and sends on parser.files
Sendable == SelectSeq(decoded, LAMBDA f : f.Type # <<restartToken>>)

\* the items the caller received that the watchdog relayed (all but the
\* timeout failure it synthesizes)
Relayed == SelectSeq(received, LAMBDA f : f # TimeoutItem)

\* C29: both handoffs are synchronous: every Record decoded but the one the
\* parser is blocked sending has been accepted by the watchdog, and Parse
\* reads a line only when none is pending; at most one item accepted by the
\* watchdog has not been received by the caller; so the parser is at most
\* one accepted Record and one pending handoff ahead of the caller.
C29_SynchronousHandoff ==
    /\ Len(Sendable) - Len(Records(handed)) = IF ppc = "send" THEN 1 ELSE 0
    /\ Len(handed) - Len(Relayed) \in {0, 1}
    /\ Len(handed) - Len(Relayed) = 1 => wpc \in {"forward", "closing", "closed"}
    /\ Len(Sendable) - Len(Records(received)) <= 2

\* the caller has received nothing, the watchdog holds the first Record and
\* the parser is blocked sending the second
C29_Witness ==
    /\ ppc = "send"
    /\ wpc = "forward"
    /\ Len(handed) = 1
    /\ received = <<>>
    /\ Len(decoded) = 2

\* the watchdog is blocked in its forward before and after the step: the
\* caller has not received
ForwardStaysPending == wpc = "forward" /\ wpc' = "forward"

\* C30 (as stated): while the caller does not receive the item the watchdog
\* forwards, no further item is accepted from parser.files, no timeout
\* failure is synthesized (the timer does not run), a parser blocked in a
\* handoff stays blocked, and the hook is not run.
C30_BlockedForwardStopsAll ==
    [][ForwardStaysPending
         => /\ handed' = handed
            /\ wf' = wf
            /\ timer' = timer
            /\ SenderReady => ppc' = ppc
            /\ hookCalls' = hookCalls]_vars

\* C30 (amended): while the caller does not receive the item the watchdog
\* forwards, no further item is accepted from parser.files, no timeout
\* failure is synthesized (the timer does not run) and a parser blocked in a
\* handoff stays blocked; the hook may still run, once, when the parser
\* reaches the end of its run before its next handoff.
C30_BlockedForwardStopsRelay ==
    [][ForwardStaysPending
         => /\ handed' = handed
            /\ wf' = wf
            /\ timer' = timer
            /\ SenderReady => ppc' = ppc
            /\ hookCalls' <= 1]_vars

\* the caller has not started to receive, the watchdog holds a Record for
\* longer than the timeout, and the parser read the completion line, ran
\* the hook and closed parser.files
C30_Witness ==
    /\ cpc = "setup"
    /\ wpc = "forward"
    /\ gap > Timeout
    /\ received = <<>>
    /\ hookCalls = 1
    /\ inchClosed

\* C31: every timing line that decodes cleanly and whose filename is not
\* the token `restart`, a four-part filename of kind `restart` included,
\* gives a Record that is handed off: all Records decoded from such lines
\* have been accepted by the watchdog, but the one the parser is blocked
\* sending.
C31_OnlyRestartTokenElided ==
    Len(decoded) - Len(Records(handed)) = IF ppc = "send" THEN 1 ELSE 0

\* number of occurrences of the token tok in l
Count(l, tok) == Cardinality({i \in 1..Len(l) : l[i] = tok})

\* the filename of a timing line that holds the marker ` for domain` once
FilenameOf(l) == SubSeq(l, 2, (CHOOSE i \in 1..Len(l) : l[i] = forDomain) - 1)

\* position of the n-th underscore of f
Underscore(f, n) ==
    CHOOSE i \in 1..Len(f) :
        f[i] = "_" /\ Cardinality({j \in 1..i : f[j] = "_"}) = n

DomainRuleOk(f) ==
    LET p == SubSeq(f, Underscore(f, 1) + 1, Underscore(f, 2) - 1)
        n == IF Len(p) > 0 /\ p[1] = "d" THEN Tail(p) ELSE p
    IN Len(n) = 1 /\ n[1] \in DOMAIN IntLiterals

InstantRuleOk(f) ==
    /\ Underscore(f, 3) = Len(f) - 1
    /\ Underscore(f, 2) = Len(f) - 3
    /\ f[Len(f) - 2] \in DOMAIN DateLiterals
    /\ f[Len(f)] \in DOMAIN TimeLiterals

\* the message of the earliest rule the line breaks, in the order: start
\* instant known, the marker once, the restart skip, four parts, domain,
\* instant; "" when it breaks none or is skipped
EarliestViolation(l, start) ==
    IF start = StartNil THEN "Start line not found yet"
    ELSE IF Count(l, forDomain) # 1 THEN "for domain expected to appears in line"
    ELSE IF FilenameOf(l) = <<restartToken>> THEN ""
    ELSE IF Count(FilenameOf(l), "_") # 3
    THEN "filename expected to be formed by 4 parts separated by underscores"
    ELSE IF ~DomainRuleOk(FilenameOf(l)) THEN "invalid domain"
    ELSE IF ~InstantRuleOk(FilenameOf(l)) THEN "invalid time instant"
    ELSE ""

\* C32: the decoder reports the failure of the earliest rule a timing line
\* breaks, in that order; a line that breaks none gives a Record, or is
\* skipped when its filename is `restart`.
C32_EarliestRuleReported ==
    linesRead > 0
        => /\ perr.msg = EarliestViolation(currline, Start)
           /\ perr = NoErr
                => IF FilenameOf(currline) = <<restartToken>>
                   THEN ppc = "scan" /\ decoded = <<>>
                   ELSE ppc = "send" /\ pending.Filename = FilenameOf(currline)

\* a line with a bad domain and a bad instant gave the invalid-domain failure
C32_Witness ==
    /\ currline = <<filesPrefix, "wrfout", "_", "d", "F1", "_", "2021-08-04", "_",
                    "RR:00:00", forDomain, " ", "1:">>
    /\ perr.msg = "invalid domain"
    /\ perr.line = currline

\* C33: the timer runs from the creation of the parser and is re-armed by
\* handoffs only: as long as nothing was handed off it shows the whole time
\* since creation, however many lines were read, and in the select it never
\* shows more than the time since the last handoff; once it has passed the
\* duration with nothing handed off, the watchdog can only have taken the
\* timeout branch.
C33_OnlyHandoffsRearm ==
    /\ handed = <<>> => timer = gap
    /\ wpc = "select" => timer <= gap
    /\ (handed = <<>> /\ timer > Timeout /\ wpc # "select") => TimedOut

\* the parser read only lines that give no item (and is still reading) for
\* longer than the duration, and the consumer received the timeout failure
C33_Witness ==
    /\ linesRead >= 2
    /\ ppc = "scan"
    /\ decoded = <<>>
    /\ handed = <<>>
    /\ timer > Timeout
    /\ received = <<TimeoutItem>>

\* C34: a handler failure leaves the stream able to reach its terminal
\* state: it puts no failure on parser.files or parser.Files, and once
\* Execute has returned it the parser is never left blocked in a handoff
\* behind a forward that nobody will receive.
C34_HandlerFailureLeavesStreamRunning ==
    HandlerFailed
        => /\ \A k \in 1..Len(handed) : handed[k].Err # ErrHandler
           /\ \A k \in 1..Len(received) : received[k].Err # ErrHandler
           /\ ~(cpc = "returned" /\ wpc = "forward" /\ SenderReady)

\* C35: under fair scheduling of the parser, the watchdog and a caller that
\* calls Collect or Execute, the call returns in every run, and parser.Files
\* is closed in every run in which the caller went on receiving until then
\* (no handler made Execute return early).
C35_ConsumerTerminates ==
    /\ <>(cpc = "returned")
    /\ <>(outClosed \/ HandlerFailed)

\* the source failed to read: Parse returned without sending or closing
\* anything, and Collect still returned, with the timeout failure, from the
\* closed parser.Files
C35_Witness ==
    /\ ppc = "returned"
    /\ perr = ErrRead
    /\ handed = <<>>
    /\ ~inchClosed
    /\ outClosed
    /\ cpc = "returned"
    /\ ret.err = ErrTimeout

\* C36: the watchdog has stopped only if the item it holds is a failure it
\* forwarded (one of the parser's, or its own timeout failure) or
\* parser.files has been closed; a Record never makes it stop.
C36_WatchdogStopsOnlyOnTerminal ==
    wpc \in {"closing", "closed"} => (IsFailure(wf) \/ inchClosed)

\* C37: when Collect has returned from the closed parser.Files without a
\* failure, the completion line was read, and the hook registered by then
\* was invoked and returned nil.
C37_CleanCloseMeansCompleted ==
    (cpc = "returned" /\ ret.err = NoErr)
        => /\ completed
           /\ hookAtCompl # "nil" => (hookCalls = 1 /\ hookFn = "ok")

\* C38: the hook is never invoked twice, and at the step by which Parse
\* returns, on whichever path, a hook that was registered in time (before
\* runOnClose read parser.onClose, if it did) has been invoked exactly once.
C38_HookOnEveryReturn ==
    [][/\ hookCalls' <= 1
       /\ (/\ ppc # "returned"
           /\ ppc' = "returned"
           /\ onClose # "nil"
           /\ ppc = "close" => hookFn = onClose)
              => hookCalls' = 1]_vars

====
